---- MODULE Spec2Model ----
(* Translation of Go callback status codes into FfiError results           *)
(* (src/src/error/go.rs): GoResult, From<i32>, TryFrom<GoResult> and       *)
(* GoResult::into_ffi_result, together with the message Buffer it consumes *)
EXTENDS Integers, Sequences, FiniteSets, TLC

\* ---------------------------------------------------------------- bounds
\* longest message buffer that is enumerated
MaxLen == 3
\* raw status codes -MaxNeg..MaxRaw are enumerated (plus a few far values)
MaxNeg == 2
MaxRaw == 7

I32Min == -2147483647 - 1
I32Max == 2147483647

\* raw i32 values handed to From<i32>
RawInputs == ((0 - MaxNeg)..MaxRaw) \cup {-7, 42, I32Min, I32Max}

\* bytes a buffer may hold: ASCII 'b', a 2-byte lead, continuations,
\* a 3-byte lead, a 4-byte lead and a byte that is never valid
ByteAlphabet == {98, 195, 169, 226, 130, 240, 159, 255}

RECURSIVE SeqsUpTo(_)
SeqsUpTo(k) ==
    IF k = 0 THEN {<<>>}
    ELSE LET shorter == SeqsUpTo(k - 1)
         IN shorter \cup {Append(s, b) : s \in {t \in shorter : Len(t) = k - 1},
                                         b \in ByteAlphabet}

\* strings the default producer may return ("" and "D"), as code points
DefaultMsgs == {<<>>, <<68>>}

\* ------------------------------------------------------------ GoResult
GoResult == {"Ok", "Panic", "BadArgument", "OutOfGas", "Other", "User"}

\* mutant: the values of Other and User are exchanged in the enum while the
\* match in From<i32> is left as it is
Discriminant_Exchanged(v) ==
    CASE v = "Ok" -> 0
      [] v = "Panic" -> 1
      [] v = "BadArgument" -> 2
      [] v = "OutOfGas" -> 3
      [] v = "Other" -> 5
      [] v = "User" -> 4

\* #[repr(i32)] discriminants of the enum
Discriminant(v) ==
    CASE v = "Ok" -> 0
      [] v = "Panic" -> 1
      [] v = "BadArgument" -> 2
      [] v = "OutOfGas" -> 3
      [] v = "Other" -> 4
      [] v = "User" -> 5

\* mutant: the arm for 5 is missing, so 5 falls through to Other
From_NoUserArm(x) ==
    CASE x = 0 -> "Ok"
      [] x = 1 -> "Panic"
      [] x = 2 -> "BadArgument"
      [] x = 3 -> "OutOfGas"
      [] OTHER -> "Other"

\* impl From<i32> for GoResult
From(x) ==
    CASE x = 0 -> "Ok"
      [] x = 1 -> "Panic"
      [] x = 2 -> "BadArgument"
      [] x = 3 -> "OutOfGas"
      [] x = 5 -> "User"
      [] OTHER -> "Other"

\* ------------------------------------------------------------- FfiError
\* Result<(), FfiError> as a record; msg is the owned String (code points)
OkUnit == [ok |-> TRUE, kind |-> "None", msg |-> <<>>]
FfiErr(k, m) == [ok |-> FALSE, kind |-> k, msg |-> m]
foreign_panic == FfiErr("ForeignPanic", <<>>)
bad_argument == FfiErr("BadArgument", <<>>)
out_of_gas == FfiErr("OutOfGas", <<>>)
user_err(m) == FfiErr("UserError", m)
unknown(m) == FfiErr("UnknownError", m)

NoResult == [ok |-> FALSE, kind |-> "Unset", msg |-> <<>>]

\* Result<Result<(), FfiError>, &'static str> of the stage-1 conversion
Converted(r) == [converted |-> TRUE, value |-> r, error |-> ""]
NotConverted(e) == [converted |-> FALSE, value |-> NoResult, error |-> e]
NoStage1 == [converted |-> FALSE, value |-> NoResult, error |-> "unset"]

\* mutant: User is converted directly instead of failing
try_from_UserDirect(other) ==
    CASE other = "Ok" -> Converted(OkUnit)
      [] other = "Panic" -> Converted(foreign_panic)
      [] other = "BadArgument" -> Converted(bad_argument)
      [] other = "OutOfGas" -> Converted(out_of_gas)
      [] other = "Other" -> NotConverted("Unspecified error in Go code")
      [] other = "User" -> Converted(bad_argument)

\* impl TryFrom<GoResult> for Result<(), FfiError>
try_from(other) ==
    CASE other = "Ok" -> Converted(OkUnit)
      [] other = "Panic" -> Converted(foreign_panic)
      [] other = "BadArgument" -> Converted(bad_argument)
      [] other = "OutOfGas" -> Converted(out_of_gas)
      [] other = "Other" -> NotConverted("Unspecified error in Go code")
      [] other = "User" -> NotConverted("Unspecified error in Go code")

\* ---------------------------------------------- String::from_utf8_lossy
\* U+FFFD REPLACEMENT CHARACTER
REPLACEMENT == 65533

utf8_char_width(b) ==
    IF b < 128 THEN 1
    ELSE IF b \in 194..223 THEN 2
    ELSE IF b \in 224..239 THEN 3
    ELSE IF b \in 240..244 THEN 4
    ELSE 0

safe_get(bs, i) == IF i <= Len(bs) THEN bs[i] ELSE 0

IsCont(b) == b \in 128..191

\* allowed second byte of a 3-byte sequence (no overlong forms, no surrogates)
Second3(first, b) ==
    \/ first = 224 /\ b \in 160..191
    \/ first \in 225..236 /\ b \in 128..191
    \/ first = 237 /\ b \in 128..159
    \/ first \in 238..239 /\ b \in 128..191

\* allowed second byte of a 4-byte sequence (no overlong forms, <= U+10FFFF)
Second4(first, b) ==
    \/ first = 240 /\ b \in 144..191
    \/ first \in 241..243 /\ b \in 128..191
    \/ first = 244 /\ b \in 128..143

\* one step of the lossy decoder at position i: the code point produced and
\* the position after it; an invalid prefix is replaced by one U+FFFD
Chunk(bs, i) ==
    LET first == bs[i]
        w == utf8_char_width(first)
        b1 == safe_get(bs, i + 1)
        b2 == safe_get(bs, i + 2)
        b3 == safe_get(bs, i + 3)
        bad(k) == [cp |-> REPLACEMENT, next |-> i + k]
    IN CASE w = 1 -> [cp |-> first, next |-> i + 1]
         [] w = 2 -> IF IsCont(b1)
                     THEN [cp |-> (first - 192) * 64 + (b1 - 128), next |-> i + 2]
                     ELSE bad(1)
         [] w = 3 -> IF ~Second3(first, b1) THEN bad(1)
                     ELSE IF ~IsCont(b2) THEN bad(2)
                     ELSE [cp |-> (first - 224) * 4096 + (b1 - 128) * 64 + (b2 - 128),
                           next |-> i + 3]
         [] w = 4 -> IF ~Second4(first, b1) THEN bad(1)
                     ELSE IF ~IsCont(b2) THEN bad(2)
                     ELSE IF ~IsCont(b3) THEN bad(3)
                     ELSE [cp |-> (first - 240) * 262144 + (b1 - 128) * 4096
                                  + (b2 - 128) * 64 + (b3 - 128),
                           next |-> i + 4]
         [] OTHER -> bad(1)

RECURSIVE LossyFrom(_, _)
LossyFrom(bs, i) ==
    IF i > Len(bs) THEN <<>>
    ELSE LET c == Chunk(bs, i) IN <<c.cp>> \o LossyFrom(bs, c.next)

\* String::from_utf8_lossy(bytes).into(): the String as its code points
from_utf8_lossy(bs) == LossyFrom(bs, 1)

\* --------------------------------------------------------------- Buffer
NULL == 0
\* address of the allocation made by memory::allocate_rust
Addr == 1

NullBuffer == [ptr |-> NULL, len |-> 0]
NoAlloc == [state |-> "none", bytes |-> <<>>]

\* effects of a call that the claims speak about
\*   heap           the allocation behind the buffer
\*   consume_calls  number of Buffer::consume calls
\*   default_calls  number of default() invocations
\*   frees          number of releases of the allocation
\*   reads          number of reads through output.ptr
Effects(h) == [heap |-> h, consume_calls |-> 0, default_calls |-> 0,
               frees |-> 0, reads |-> 0]

\* Buffer::consume: take the len bytes behind ptr into an owned Vec; the
\* Vec is dropped by the caller's statement, which releases the allocation
consume(out, e) ==
    [bytes |-> IF out.ptr = NULL THEN <<>> ELSE SubSeq(e.heap.bytes, 1, out.len),
     eff |-> [e EXCEPT !.consume_calls = @ + 1,
                       !.reads = @ + 1,
                       !.frees = @ + 1,
                       !.heap = [@ EXCEPT !.state = "freed"]]]

\* default(): the caller's message producer
call_default(dflt, e) ==
    [msg |-> dflt, eff |-> [e EXCEPT !.default_calls = @ + 1]]

\* ------------------------------------------- GoResult::into_ffi_result
\* mutant: the null check is missing, the buffer is always consumed
into_ffi_result_NoNullCheck(s, out, dflt, e) ==
    LET is_user_error == s = "User"
        st1 == try_from(s)
    IN IF st1.converted THEN [ret |-> st1.value, eff |-> e]
       ELSE LET c == consume(out, e)
                msg == from_utf8_lossy(c.bytes)
            IN [ret |-> IF is_user_error THEN user_err(msg) ELSE unknown(msg),
                eff |-> c.eff]

\* mutant: the two error kinds are swapped
into_ffi_result_KindsSwapped(s, out, dflt, e) ==
    LET is_user_error == s = "User"
        st1 == try_from(s)
    IN IF st1.converted THEN [ret |-> st1.value, eff |-> e]
       ELSE LET m == IF out.ptr = NULL
                     THEN call_default(dflt, e)
                     ELSE LET c == consume(out, e)
                          IN [msg |-> from_utf8_lossy(c.bytes), eff |-> c.eff]
            IN [ret |-> IF is_user_error THEN unknown(m.msg) ELSE user_err(m.msg),
                eff |-> m.eff]

\* mutant: an empty buffer falls back to default() after being consumed
into_ffi_result_EmptyFallsBack(s, out, dflt, e) ==
    LET is_user_error == s = "User"
        st1 == try_from(s)
    IN IF st1.converted THEN [ret |-> st1.value, eff |-> e]
       ELSE LET m == IF out.ptr = NULL
                     THEN call_default(dflt, e)
                     ELSE LET c == consume(out, e)
                          IN IF c.bytes = <<>>
                             THEN call_default(dflt, c.eff)
                             ELSE [msg |-> from_utf8_lossy(c.bytes), eff |-> c.eff]
            IN [ret |-> IF is_user_error THEN user_err(m.msg) ELSE unknown(m.msg),
                eff |-> m.eff]

\* mutant: the buffer is consumed before the stage-1 conversion is tried
into_ffi_result_EagerConsume(s, out, dflt, e) ==
    LET is_user_error == s = "User"
        st1 == try_from(s)
        c == IF out.ptr = NULL THEN [bytes |-> <<>>, eff |-> e] ELSE consume(out, e)
    IN IF st1.converted THEN [ret |-> st1.value, eff |-> c.eff]
       ELSE LET m == IF out.ptr = NULL
                     THEN call_default(dflt, c.eff)
                     ELSE [msg |-> from_utf8_lossy(c.bytes), eff |-> c.eff]
            IN [ret |-> IF is_user_error THEN user_err(m.msg) ELSE unknown(m.msg),
                eff |-> m.eff]

\* GoResult::into_ffi_result(self, output, default)
into_ffi_result(s, out, dflt, e) ==
    LET is_user_error == s = "User"
        st1 == try_from(s)
    IN IF st1.converted THEN [ret |-> st1.value, eff |-> e]
       ELSE LET m == IF out.ptr = NULL
                     THEN call_default(dflt, e)
                     ELSE LET c == consume(out, e)
                          IN [msg |-> from_utf8_lossy(c.bytes), eff |-> c.eff]
            IN [ret |-> IF is_user_error THEN user_err(m.msg) ELSE unknown(m.msg),
                eff |-> m.eff]

\* -------------------------------------------------------- state machine
VARIABLES
    pc,             \* "raw" -> "code" -> "converted" | "done"
    n,              \* the i32 returned by the Go callback
    self,           \* the GoResult decoded from n ("none" before decoding)
    output,         \* the Buffer the Go callback filled in (or left null)
    default_msg,    \* the String the caller's default() returns
    heap,           \* the allocation behind output
    stage1,         \* result of a stand-alone try_from(self)
    ret,            \* result of into_ffi_result
    consume_calls, default_calls, frees, reads

vars == <<pc, n, self, output, default_msg, heap, stage1, ret,
          consume_calls, default_calls, frees, reads>>

\* the Go callback has returned: a status code, and either the null buffer
\* Rust initialised or a buffer allocated with memory::allocate_rust
Init ==
    /\ pc = "raw"
    /\ n \in RawInputs
    /\ self = "none"
    /\ \/ output = NullBuffer /\ heap = NoAlloc
       \/ \E bs \in SeqsUpTo(MaxLen) :
            /\ output = [ptr |-> Addr, len |-> Len(bs)]
            /\ heap = [state |-> "live", bytes |-> bs]
    /\ default_msg \in DefaultMsgs
    /\ stage1 = NoStage1
    /\ ret = NoResult
    /\ consume_calls = 0 /\ default_calls = 0 /\ frees = 0 /\ reads = 0

\* let code: GoResult = n.into()
From_i32 ==
    /\ pc = "raw"
    /\ self' = From(n)
    /\ pc' = "code"
    /\ UNCHANGED <<n, output, default_msg, heap, stage1, ret,
                   consume_calls, default_calls, frees, reads>>

\* let r: Result<Result<(), FfiError>, _> = code.try_into()
TryFromCall ==
    /\ pc = "code"
    /\ stage1' = try_from(self)
    /\ pc' = "converted"
    /\ UNCHANGED <<n, self, output, default_msg, heap, ret,
                   consume_calls, default_calls, frees, reads>>

\* code.into_ffi_result(output, default)
IntoFfiResultCall ==
    /\ pc = "code"
    /\ LET r == into_ffi_result(self, output, default_msg, Effects(heap))
       IN /\ ret' = r.ret
          /\ heap' = r.eff.heap
          /\ consume_calls' = r.eff.consume_calls
          /\ default_calls' = r.eff.default_calls
          /\ frees' = r.eff.frees
          /\ reads' = r.eff.reads
    /\ pc' = "done"
    /\ UNCHANGED <<n, self, output, default_msg, stage1>>

Next == From_i32 \/ TryFromCall \/ IntoFfiResultCall

Spec == Init /\ [][Next]_vars

TypeOK ==
    /\ pc \in {"raw", "code", "converted", "done"}
    /\ n \in RawInputs
    /\ self \in GoResult \cup {"none"}
    /\ output.ptr \in {NULL, Addr}
    /\ heap.state \in {"none", "live", "freed"}
    /\ output.ptr = NULL <=> heap.state = "none"
    /\ output.len = Len(heap.bytes)
    /\ default_msg \in DefaultMsgs

\* ---------------------------------------------------------------- claims
NeedsFallback == {"Other", "User"}
Structural == {"Ok", "Panic", "BadArgument", "OutOfGas"}

\* C1: in every call of into_ffi_result the message buffer is consumed and
\* released at most once, and a null buffer is never consumed, read or
\* released.
C1_ConsumeAtMostOnce ==
    /\ consume_calls <= 1
    /\ frees <= 1
    /\ output.ptr = NULL => consume_calls = 0 /\ frees = 0 /\ reads = 0

C1_Witness ==
    /\ pc = "done" /\ self = "Other" /\ output.ptr # NULL
    /\ consume_calls = 1 /\ frees = 1

\* C2: for every status code, a non-null buffer handed to into_ffi_result
\* has been released exactly once when the call returns.
C2_NoLeak ==
    pc = "done" /\ output.ptr # NULL => heap.state = "freed" /\ frees = 1

\* C3: From<i32> is total: 0 -> Ok, 1 -> Panic, 2 -> BadArgument,
\* 3 -> OutOfGas, 5 -> User and every other integer -> Other.
C3_DecodeTotal ==
    pc # "raw" =>
        /\ self \in GoResult
        /\ n = 0 => self = "Ok"
        /\ n = 1 => self = "Panic"
        /\ n = 2 => self = "BadArgument"
        /\ n = 3 => self = "OutOfGas"
        /\ n = 5 => self = "User"
        /\ n \notin {0, 1, 2, 3, 5} => self = "Other"

C3_Witness == pc = "code" /\ n = 5 /\ self = "User"

\* C4: the stage-1 conversion maps Ok to success, Panic to ForeignPanic,
\* BadArgument to BadArgument, OutOfGas to OutOfGas, and fails (no direct
\* result) for exactly Other and User.
C4_Stage1 ==
    pc = "converted" =>
        /\ self = "Ok" => stage1.converted /\ stage1.value.ok
        /\ self = "Panic" =>
             stage1.converted /\ ~stage1.value.ok /\ stage1.value.kind = "ForeignPanic"
        /\ self = "BadArgument" =>
             stage1.converted /\ ~stage1.value.ok /\ stage1.value.kind = "BadArgument"
        /\ self = "OutOfGas" =>
             stage1.converted /\ ~stage1.value.ok /\ stage1.value.kind = "OutOfGas"
        /\ stage1.converted <=> self \notin NeedsFallback

C4_Witness == pc = "converted" /\ self = "User" /\ ~stage1.converted

\* C5: with code Other or User and a null buffer the default producer's
\* result D is the message and the buffer is not dereferenced: User yields
\* UserError(D), Other yields UnknownError(D).
C5_NullUsesDefault ==
    pc = "done" /\ self \in NeedsFallback /\ output.ptr = NULL =>
        /\ ~ret.ok
        /\ ret.kind = (IF self = "User" THEN "UserError" ELSE "UnknownError")
        /\ ret.msg = default_msg
        /\ default_calls = 1
        /\ reads = 0 /\ consume_calls = 0 /\ frees = 0

C5_Witness ==
    /\ pc = "done" /\ self = "User" /\ output.ptr = NULL /\ default_msg = <<68>>
    /\ ret.kind = "UserError" /\ ret.msg = <<68>>

C8_StructuralFrame ==
    pc = "done" /\ self \in Structural =>
        /\ self = "Ok" => ret = OkUnit
        /\ self = "Panic" => ret = foreign_panic
        /\ self = "BadArgument" => ret = bad_argument
        /\ self = "OutOfGas" => ret = out_of_gas
        /\ reads = 0 /\ consume_calls = 0 /\ frees = 0 /\ default_calls = 0
        /\ heap.state = (IF output.ptr = NULL THEN "none" ELSE "live")

C8_Witness ==
    /\ pc = "done" /\ self = "Panic" /\ output.ptr # NULL /\ output.len > 0
    /\ ret = foreign_panic /\ heap.state = "live"

\* C9: decoding the numeric discriminant of each of the six GoResult
\* variants with From<i32> returns that same variant.
C9_RoundTrip ==
    pc # "raw" => \A v \in GoResult : n = Discriminant(v) => self = v

C9_Witness == pc = "code" /\ n = Discriminant("Other") /\ self = "Other"

\* C10: in stage 2 (codes Other and User) the message is the default
\* producer's result if the buffer is null or holds zero bytes, and the
\* buffer's content only when the buffer is non-null and non-empty.
C10_EmptyUsesDefault ==
    pc = "done" /\ self \in NeedsFallback =>
        IF output.ptr = NULL \/ output.len = 0
        THEN ret.msg = default_msg
        ELSE ret.msg = from_utf8_lossy(heap.bytes)

====
